---------------------------- MODULE Spec2Model ----------------------------
(***************************************************************************)
(* The XML language server's formatter (xmlServer.ts): the line walk of    *)
(* formatXml, the edit builders formatXmlDocument / formatXmlDocumentRange *)
(* and the request handlers of startServer that gate them on the settings. *)
(*                                                                         *)
(* A string is a sequence of one-character strings.  Two specifications    *)
(* share the module: SpecFormat walks formatXml line by line over inputs   *)
(* drawn from a bounded set, Spec runs the server's handlers.              *)
(***************************************************************************)
EXTENDS Naturals, Integers, Sequences, FiniteSets, TLC

VARIABLES
    \* one run of formatXml, walked line by line (SpecFormat)
    content,            \* the `content` argument
    options,            \* the `options` argument (FormattingOptions)
    settings,           \* the `settings` argument (Settings)
    lines,              \* content.split(/\r?\n/)
    i,                  \* the loop index, 1-based
    depth,              \* let depth
    preserveWhitespace, \* let preserveWhitespace
    formatted,          \* let formatted
    prevDepth,          \* depth before the line consumed last (history)
    pc,                 \* "loop" while the for loop runs, "done" after return
    result,             \* the returned string, once pc = "done"
    \* the server (Spec)
    globalSettings,     \* let globalSettings
    documents,          \* the TextDocuments manager: the open document, if any
    requests            \* the formatting requests in flight, per request slot

fmtVars == <<content, options, settings, lines, i, depth, preserveWhitespace,
             formatted, prevDepth, pc, result>>
srvVars == <<globalSettings, documents, requests>>
vars == <<content, options, settings, lines, i, depth, preserveWhitespace,
          formatted, prevDepth, pc, result, globalSettings, documents, requests>>

---------------------------------------------------------------------------
(* Bounds of the model *)

\* the longest input text, in fragments
MaxFrags == 3
\* the longest document of the server specification, in fragments
MaxDocFrags == 2
MaxCdataFrags == 3

---------------------------------------------------------------------------
(* Strings *)

LF == "\n"
CR == "\r"
TAB == "\t"
SP == " "

\* the characters String.prototype.trim / trimEnd remove
IsWhiteSpace(c) == c \in {SP, TAB, LF, CR}

Max(a, b) == IF a >= b THEN a ELSE b

MinOf(S) == CHOOSE m \in S : \A n \in S : m <= n
MaxOf(S) == CHOOSE m \in S : \A n \in S : m >= n

\* s.startsWith(p)
StartsWith(s, p) == Len(s) >= Len(p) /\ SubSeq(s, 1, Len(p)) = p

\* s.endsWith(p)
EndsWith(s, p) == Len(s) >= Len(p) /\ SubSeq(s, Len(s) - Len(p) + 1, Len(s)) = p

\* s.includes(p)
Includes(s, p) ==
    \E k \in 1..(Len(s) + 1) :
        k + Len(p) - 1 <= Len(s) /\ SubSeq(s, k, k + Len(p) - 1) = p

\* s.trim()
Trim(s) ==
    LET keep == {k \in 1..Len(s) : ~IsWhiteSpace(s[k])}
    IN  IF keep = {} THEN <<>> ELSE SubSeq(s, MinOf(keep), MaxOf(keep))

\* s.trimEnd()
TrimEnd(s) ==
    LET keep == {k \in 1..Len(s) : ~IsWhiteSpace(s[k])}
    IN  IF keep = {} THEN <<>> ELSE SubSeq(s, 1, MaxOf(keep))

\* u.repeat(n)
RECURSIVE Repeat(_, _)
Repeat(u, n) == IF n <= 0 THEN <<>> ELSE u \o Repeat(u, n - 1)

\* s.split(/\r?\n/): cut at every "\n", dropping one "\r" right before it
RECURSIVE Split(_)
Split(s) ==
    LET nl == {k \in 1..Len(s) : s[k] = LF}
    IN  IF nl = {} THEN <<s>>
        ELSE LET k == MinOf(nl)
                 e == IF k > 1 /\ s[k - 1] = CR THEN k - 2 ELSE k - 1
             IN  <<SubSeq(s, 1, e)>> \o Split(SubSeq(s, k + 1, Len(s)))

\* the markers formatXml looks for
PI_OPEN == <<"<", "?">>
COMMENT_OPEN == <<"<", "!", "-", "-">>
COMMENT_CLOSE == <<"-", "-", ">">>
CDATA_OPEN == <<"<", "!", "[", "C", "D", "A", "T", "A", "[">>
CDATA_CLOSE == <<"]", "]", ">">>
SELF_CLOSE == <<"/", ">">>
CLOSE_OPEN == <<"<", "/">>
LT == <<"<">>
BANG_OPEN == <<"<", "!">>

---------------------------------------------------------------------------
(* Settings and options *)

\* An optional field is a sequence: <<>> when undefined (or null), <<v>> when
\* set.  A Settings object has the optional field xml, which has the optional
\* field format.  The object a configuration change carries at settings.xml
\* is stored as the Settings object, so it also keeps its own format field.
Undefined == <<>>
Some(v) == <<v>>
IsSet(o) == Len(o) > 0

EmptySettings == [xml |-> Undefined, format |-> Undefined]

FormatObj(en, pnl, mx) ==
    [enable |-> en, preserveNewLines |-> pnl, maxPreserveNewLines |-> mx]

\* a Settings object whose xml.format is f
SettingsWith(f) == [xml |-> Some([format |-> Some(f)]), format |-> Undefined]

\* settings.xml?.format || {}
EmptyFormat == FormatObj(Undefined, Undefined, Undefined)
xmlSettings(s) ==
    IF IsSet(s.xml) /\ IsSet(s.xml[1].format) THEN s.xml[1].format[1]
    ELSE EmptyFormat

\* options.tabSize || 2
indentSize(o) == IF o.tabSize = 0 THEN 2 ELSE o.tabSize

\* options.insertSpaces !== false
useSpaces(o) == o.insertSpaces # FALSE

\* useSpaces ? ' '.repeat(indentSize) : '\t'
indentChar(o) == IF useSpaces(o) THEN Repeat(<<SP>>, indentSize(o)) ELSE <<TAB>>

\* xmlSettings.preserveNewLines !== false
KeepsBlankLines(xs) == xs.preserveNewLines # Some(FALSE)

---------------------------------------------------------------------------
(* formatXml: the body of the for loop, for one line *)

\* mutant: the decrement left out
ClosingDepthKept(d) == d

\* mutant: the decrement without its floor
ClosingDepthUnclamped(d) == d - 1

\* Math.max(0, depth - 1)
ClosingDepth(d) == Max(0, d - 1)

\* what a line inside a CDATA section appends to formatted
VerbatimLine(raw, line) == line \o <<LF>>

\* mutant: the increment left out
OpeningDepthNever(line, d) == d

\* depth after an opening-tag line: depth++ unless the line ends with "/>"
OpeningDepth(line, d) == IF ~EndsWith(line, SELF_CLOSE) THEN d + 1 ELSE d

\* mutant: blank lines kept whatever the settings say
BlankLineAlways(xs) == <<LF>>

\* what a blank line appends to formatted
BlankLine(xs) == IF KeepsBlankLines(xs) THEN <<LF>> ELSE <<>>

\* mutant: a self-closing tag looked for at the end of the line only
IsSelfClosingAtEnd(line) == EndsWith(line, SELF_CLOSE)

\* line.includes('/>')
IsSelfClosing(line) == Includes(line, SELF_CLOSE)

\* mutant: the line break left out
IndentedLineJoined(unit, d, line) == Repeat(unit, d) \o line

\* mutant: the indent left out
IndentedLineFlat(unit, d, line) == line \o <<LF>>

\* indentChar.repeat(depth) + line + '\n'
IndentedLine(unit, d, line) == Repeat(unit, d) \o line \o <<LF>>

\* mutant: the flag cleared on the line that set it
StaysVerbatimNever(line) == FALSE

\* preserveWhitespace after a line of a CDATA section: false once the line
\* includes "]]>"
StaysVerbatim(line) == ~Includes(line, CDATA_CLOSE)

\* One iteration: st is [depth, preserveWhitespace, formatted], raw is lines[i].
StepLine(st, raw, unit, xs) ==
    LET line == Trim(raw)
        indented(d) == IndentedLine(unit, d, line)
    IN  IF line = <<>>
        THEN [st EXCEPT !.formatted = @ \o BlankLine(xs)]
        ELSE IF StartsWith(line, PI_OPEN) \/ StartsWith(line, COMMENT_OPEN)
        THEN [st EXCEPT !.formatted = @ \o line \o <<LF>>]
        ELSE IF Includes(line, CDATA_OPEN)
        THEN [st EXCEPT !.formatted = @ \o indented(st.depth),
                        !.preserveWhitespace = StaysVerbatim(line)]
        ELSE IF st.preserveWhitespace
        THEN [st EXCEPT !.formatted = @ \o VerbatimLine(raw, line),
                        !.preserveWhitespace = StaysVerbatim(line)]
        ELSE IF IsSelfClosing(line)
        THEN [st EXCEPT !.formatted = @ \o indented(st.depth)]
        ELSE IF StartsWith(line, CLOSE_OPEN)
        THEN [st EXCEPT !.depth = ClosingDepth(st.depth),
                        !.formatted = @ \o indented(ClosingDepth(st.depth))]
        ELSE IF StartsWith(line, LT) /\ ~StartsWith(line, BANG_OPEN)
        THEN [st EXCEPT !.formatted = @ \o indented(st.depth),
                        !.depth = OpeningDepth(line, st.depth)]
        ELSE IF ~StartsWith(line, LT)
        THEN [st EXCEPT !.formatted = @ \o indented(st.depth)]
        ELSE [st EXCEPT !.formatted = @ \o indented(st.depth)]

\* mutant: a run that starts where a run over "<a>" stopped
InitialRunShared == [depth |-> 1, preserveWhitespace |-> FALSE, formatted |-> <<>>]

\* let formatted = ''; let depth = 0; let preserveWhitespace = false
InitialRun == [depth |-> 0, preserveWhitespace |-> FALSE, formatted |-> <<>>]

\* the state after the first n lines
RECURSIVE Walk(_, _, _, _)
Walk(ls, n, unit, xs) ==
    IF n = 0 THEN InitialRun
    ELSE StepLine(Walk(ls, n - 1, unit, xs), ls[n], unit, xs)

\* mutant: the result returned as built, line break at its end
FinishUntrimmed(f) == f

\* mutant: the result closed with a line break
FinishWithLineBreak(f) == TrimEnd(f) \o <<LF>>

\* return formatted.trimEnd()
Finish(f) == TrimEnd(f)

formatXml(c, o, s) ==
    LET ls == Split(c)
    IN  Finish(Walk(ls, Len(ls), indentChar(o), xmlSettings(s)).formatted)

---------------------------------------------------------------------------
(* Inputs *)

\* the pieces input texts are built from
A_OPEN == <<"<", "a", ">">>
A_CLOSE == <<"<", "/", "a", ">">>
B_SELF == <<"<", "b", "/", ">">>
X_TEXT == <<"x">>
PI_LINE == <<"<", "?", "p", "?", ">">>
DOCTYPE == <<"<", "!", "D", ">">>
NL == <<LF>>
IND == <<SP, SP>>

Frags ==
    { A_OPEN, A_CLOSE, B_SELF, X_TEXT, <<SP>>, NL, <<CR>>,
      CDATA_OPEN, CDATA_CLOSE, COMMENT_OPEN, COMMENT_CLOSE, PI_LINE, DOCTYPE }

RECURSIVE FragSeqs(_, _)
FragSeqs(F, n) ==
    IF n = 0 THEN {<<>>}
    ELSE LET shorter == FragSeqs(F, n - 1)
         IN  shorter \cup {t \o f : t \in shorter, f \in F}

\* longer inputs: the scenarios of the specification and of the claims
ScenarioA == A_OPEN \o B_SELF \o A_CLOSE
ScenarioALines == A_OPEN \o NL \o B_SELF \o NL \o A_CLOSE
ScenarioB == B_SELF \o NL \o NL \o NL \o NL \o B_SELF
ScenarioC ==
    A_OPEN \o CDATA_OPEN \o <<SP>> \o X_TEXT \o <<SP, SP>> \o X_TEXT \o <<SP>>
        \o CDATA_CLOSE \o A_CLOSE
ScenarioD == A_OPEN \o NL \o IND \o B_SELF \o NL \o A_CLOSE
CdataLines ==
    A_OPEN \o NL \o CDATA_OPEN \o NL \o IND \o X_TEXT \o <<SP>> \o NL \o NL
        \o CDATA_CLOSE \o NL \o A_CLOSE
CdataOpenEnded == A_OPEN \o NL \o CDATA_OPEN \o NL \o A_OPEN \o NL \o A_CLOSE \o NL \o A_CLOSE
CommentLines ==
    A_OPEN \o NL \o COMMENT_OPEN \o NL \o A_OPEN \o NL \o COMMENT_CLOSE \o NL
        \o B_SELF \o NL \o A_CLOSE
CommentOpenEnded == COMMENT_OPEN \o NL \o A_OPEN \o NL \o <<SP>> \o B_SELF
Siblings ==
    A_OPEN \o NL \o A_OPEN \o X_TEXT \o A_CLOSE \o NL \o A_OPEN \o X_TEXT \o A_CLOSE
        \o NL \o A_CLOSE
ExtraClosing == A_CLOSE \o NL \o A_CLOSE \o NL \o A_OPEN \o NL \o B_SELF
CdataInComment == COMMENT_OPEN \o CDATA_OPEN \o COMMENT_CLOSE \o NL \o A_OPEN \o NL \o B_SELF
NestedTags ==
    A_OPEN \o NL \o A_OPEN \o NL \o B_SELF \o NL \o NL \o A_CLOSE \o NL \o A_CLOSE
Nested ==
    <<SP>> \o A_OPEN \o <<CR>> \o NL \o A_OPEN \o NL \o X_TEXT \o NL \o A_CLOSE
        \o NL \o A_CLOSE \o NL

ScenarioTexts ==
    { ScenarioA, ScenarioD \o NL, ScenarioB \o NL \o NL, ScenarioALines, ScenarioB, ScenarioC, ScenarioD, CdataLines,
      CdataOpenEnded, CommentLines, CommentOpenEnded, Siblings, ExtraClosing,
      Nested, NestedTags, CdataInComment }

Texts == FragSeqs(Frags, MaxFrags) \cup ScenarioTexts

OptionsSet ==
    { [tabSize |-> 2, insertSpaces |-> TRUE],
      [tabSize |-> 0, insertSpaces |-> FALSE] }

FormatSettingsSet ==
    { EmptySettings,
      SettingsWith(FormatObj(Undefined, Some(FALSE), Undefined)),
      SettingsWith(FormatObj(Undefined, Some(TRUE), Some(1))) }

---------------------------------------------------------------------------
(* SpecFormat: one call of formatXml, one loop iteration per step *)

ServerIdle ==
    /\ globalSettings = EmptySettings
    /\ documents = Undefined
    /\ requests = <<>>

InitFormat ==
    /\ content \in Texts
    /\ options \in OptionsSet
    /\ settings \in FormatSettingsSet
    /\ lines = Split(content)
    /\ i = 1
    /\ depth = 0
    /\ preserveWhitespace = FALSE
    /\ formatted = <<>>
    /\ prevDepth = 0
    /\ pc = "loop"
    /\ result = <<>>
    /\ ServerIdle

\* for (let i = 0; i < lines.length; i++) { ... }
LoopStep ==
    /\ pc = "loop"
    /\ i <= Len(lines)
    /\ LET st == StepLine([depth |-> depth,
                           preserveWhitespace |-> preserveWhitespace,
                           formatted |-> formatted],
                          lines[i], indentChar(options), xmlSettings(settings))
       IN  /\ depth' = st.depth
           /\ preserveWhitespace' = st.preserveWhitespace
           /\ formatted' = st.formatted
    /\ prevDepth' = depth
    /\ i' = i + 1
    /\ UNCHANGED <<content, options, settings, lines, pc, result>>
    /\ UNCHANGED srvVars

\* return formatted.trimEnd()
Return ==
    /\ pc = "loop"
    /\ i > Len(lines)
    /\ pc' = "done"
    /\ result' = Finish(formatted)
    /\ UNCHANGED <<content, options, settings, lines, i, depth,
                   preserveWhitespace, formatted, prevDepth>>
    /\ UNCHANGED srvVars

NextFormat == LoopStep \/ Return

SpecFormat == InitFormat /\ [][NextFormat]_vars

\* the calls on texts built from tags, line breaks and the CDATA and comment
\* markers
CdataFrags == {A_OPEN, A_CLOSE, NL, CDATA_OPEN, CDATA_CLOSE, COMMENT_OPEN}

InitFormatCdata ==
    /\ content \in FragSeqs(CdataFrags, MaxCdataFrags) \cup ScenarioTexts
    /\ options = [tabSize |-> 2, insertSpaces |-> TRUE]
    /\ settings = EmptySettings
    /\ lines = Split(content)
    /\ i = 1
    /\ depth = 0
    /\ preserveWhitespace = FALSE
    /\ formatted = <<>>
    /\ prevDepth = 0
    /\ pc = "loop"
    /\ result = <<>>
    /\ ServerIdle

\* the loop and the return are synchronous code: a call that has started
\* runs to its return
SpecFormatLive == InitFormatCdata /\ [][NextFormat]_vars /\ WF_vars(NextFormat)

---------------------------------------------------------------------------
(* The edit builders *)

\* document.positionAt(offset) and the offsets of a Range: a position is kept
\* as its offset in the document's text
positionAt(offset) == offset

\* document.getText(range)
getText(text, range) == SubSeq(text, range.start + 1, range.end)

\* mutant: the edit returned without the comparison
formatXmlDocumentAlways(text, o, s) ==
    << [range |-> [start |-> positionAt(0), end |-> positionAt(Len(text))],
        newText |-> formatXml(text, o, s)] >>

formatXmlDocument(text, o, s) ==
    LET f == formatXml(text, o, s)
    IN  IF f = text THEN <<>>
        ELSE << [range |-> [start |-> positionAt(0), end |-> positionAt(Len(text))],
                 newText |-> f] >>

\* mutant: the whole document formatted in place of the range's text
formatXmlDocumentRangeWhole(doc, range, o, s) ==
    LET f == formatXml(doc, o, s)
    IN  IF f = doc THEN <<>>
        ELSE << [range |-> range, newText |-> f] >>

formatXmlDocumentRange(doc, range, o, s) ==
    LET text == getText(doc, range)
        f == formatXml(text, o, s)
    IN  IF f = text THEN <<>>
        ELSE << [range |-> range, newText |-> f] >>

---------------------------------------------------------------------------
(* Spec: the server's handlers *)

\* settings.xml?.format?.enable === false
FormatDisabled(s) ==
    /\ IsSet(s.xml)
    /\ IsSet(s.xml[1].format)
    /\ s.xml[1].format[1].enable = Some(FALSE)

\* getDocumentSettings: hasConfigurationCapability is false, so the promise
\* resolves to the globalSettings object of the time of the call
getDocumentSettings(g) == g

\* the documents the client opens and edits
DocFrags == {A_OPEN, A_CLOSE, B_SELF, NL, <<SP>>}
ScenarioDocs == {ScenarioALines, ScenarioD}
Docs == FragSeqs(DocFrags, MaxDocFrags) \cup ScenarioDocs

\* the values of change.settings.xml the client sends: nothing, the section
\* as the extension declares it (format at its top), and an object that
\* holds a Settings object itself (xml at its top)
DisabledFormat == FormatObj(Some(FALSE), Undefined, Undefined)
XmlSections ==
    { Undefined,
      Some([xml |-> Undefined, format |-> Some(DisabledFormat)]),
      Some(SettingsWith(DisabledFormat)) }

RequestIds == {"r1"}

NoRange == [start |-> 0, end |-> 0]
NoOptions == [tabSize |-> 0, insertSpaces |-> TRUE]

\* a request slot: kind is "document" or "range"; settings is what the awaited
\* promise resolves to; text is what the edit builder was given and ran tells
\* whether it (and so formatXml) was called
IdleRequest ==
    [pc |-> "idle", kind |-> "none", range |-> NoRange, options |-> NoOptions,
     settings |-> EmptySettings, text |-> <<>>, ran |-> FALSE, result |-> <<>>]

Ranges(text) ==
    {[start |-> a, end |-> b] : a \in 0..Len(text), b \in 0..Len(text)}

FormatIdle ==
    /\ content = <<>>
    /\ options = NoOptions
    /\ settings = EmptySettings
    /\ lines = <<>>
    /\ i = 1
    /\ depth = 0
    /\ preserveWhitespace = FALSE
    /\ formatted = <<>>
    /\ prevDepth = 0
    /\ pc = "done"
    /\ result = <<>>

Init ==
    /\ globalSettings = EmptySettings
    /\ documents \in {Undefined} \cup {Some(t) : t \in Docs}
    /\ requests = [r \in RequestIds |-> IdleRequest]
    /\ FormatIdle

Suspended == \E r \in DOMAIN requests : requests[r].pc = "await"

\* connection.onDidChangeConfiguration: globalSettings = change.settings.xml || {}
DidChangeConfiguration ==
    /\ \E x \in XmlSections :
          globalSettings' = IF IsSet(x) THEN x[1] ELSE EmptySettings
    /\ UNCHANGED <<documents, requests>>
    /\ UNCHANGED fmtVars

\* the client opens the document (between requests)
DidOpen ==
    /\ ~IsSet(documents)
    /\ ~Suspended
    /\ \E t \in Docs : documents' = Some(t)
    /\ UNCHANGED <<globalSettings, requests>>
    /\ UNCHANGED fmtVars

\* the client types at the end of the document: the manager updates the
\* TextDocument object in place, so a suspended handler sees the new text
DidChangeContent ==
    /\ IsSet(documents)
    /\ \E f \in DocFrags :
          /\ documents[1] \o f \in Docs
          /\ documents' = Some(documents[1] \o f)
    /\ UNCHANGED <<globalSettings, requests>>
    /\ UNCHANGED fmtVars

\* the client closes the document (between requests)
DidClose ==
    /\ IsSet(documents)
    /\ ~Suspended
    /\ documents' = Undefined
    /\ UNCHANGED <<globalSettings, requests>>
    /\ UNCHANGED fmtVars

\* a handler up to its await: documents.get, then getDocumentSettings
Receive(r, kind, range, o) ==
    /\ requests[r].pc = "idle"
    /\ requests' = [requests EXCEPT ![r] =
          IF ~IsSet(documents)
          THEN [IdleRequest EXCEPT !.pc = "done", !.kind = kind, !.range = range,
                                   !.options = o]
          ELSE [IdleRequest EXCEPT !.pc = "await", !.kind = kind, !.range = range,
                                   !.options = o,
                                   !.settings = getDocumentSettings(globalSettings)]]
    /\ UNCHANGED <<globalSettings, documents>>
    /\ UNCHANGED fmtVars

\* connection.onDocumentFormatting, called
OnDocumentFormatting(r) ==
    \E o \in OptionsSet : Receive(r, "document", NoRange, o)

\* connection.onDocumentRangeFormatting, called
OnDocumentRangeFormatting(r) ==
    \E o \in OptionsSet :
        \E range \in (IF IsSet(documents) THEN Ranges(documents[1]) ELSE {NoRange}) :
            /\ range.start <= range.end
            /\ Receive(r, "range", range, o)

\* mutant: the gate left out
GateResultOpen(s, edits) == edits

\* what the gate returns when it holds the request back
GateResult(s, edits) == IF FormatDisabled(s) THEN <<>> ELSE edits

\* a handler after its await: the settings gate, then the edit builder
Resume(r, kind) ==
    LET q == requests[r]
        doc == documents[1]
        text == IF kind = "document" THEN doc ELSE getText(doc, q.range)
        edits == IF kind = "document"
                 THEN formatXmlDocument(doc, q.options, q.settings)
                 ELSE formatXmlDocumentRange(doc, q.range, q.options, q.settings)
    IN  /\ q.pc = "await"
        /\ q.kind = kind
        /\ requests' = [requests EXCEPT ![r] =
              [q EXCEPT !.pc = "done",
                        !.ran = ~FormatDisabled(q.settings),
                        !.text = text,
                        !.result = GateResult(q.settings, edits)]]
        /\ UNCHANGED <<globalSettings, documents>>
        /\ UNCHANGED fmtVars

ResumeDocumentFormatting(r) == Resume(r, "document")

ResumeDocumentRangeFormatting(r) == Resume(r, "range")

\* the response is sent in the turn that resumed the handler
Respond(r) ==
    /\ requests[r].pc = "done"
    /\ requests' = [requests EXCEPT ![r] = IdleRequest]
    /\ UNCHANGED <<globalSettings, documents>>
    /\ UNCHANGED fmtVars

Responding == \E r \in DOMAIN requests : requests[r].pc = "done"

Next ==
    \/ ~Responding /\ DidChangeConfiguration
    \/ ~Responding /\ DidOpen
    \/ ~Responding /\ DidChangeContent
    \/ ~Responding /\ DidClose
    \/ \E r \in DOMAIN requests : OnDocumentFormatting(r)
    \/ \E r \in DOMAIN requests : OnDocumentRangeFormatting(r)
    \/ \E r \in DOMAIN requests : ResumeDocumentFormatting(r)
    \/ \E r \in DOMAIN requests : ResumeDocumentRangeFormatting(r)
    \/ \E r \in DOMAIN requests : Respond(r)

Spec == Init /\ [][Next]_vars

---------------------------------------------------------------------------
(* SpecConcurrent: the same handlers with two requests in flight *)

ConcurrentIds == {"r1", "r2"}

\* the documents, settings, options and ranges of the two-request runs
ConcurrentDocs == {A_OPEN, A_OPEN \o NL, <<SP>> \o A_OPEN, A_OPEN \o A_CLOSE}

ConcurrentInputs ==
    /\ documents \in {Undefined} \cup {Some(t) : t \in ConcurrentDocs}
    /\ globalSettings \in {EmptySettings, SettingsWith(DisabledFormat)}
    /\ \A r \in DOMAIN requests :
          /\ requests[r].options \in {NoOptions, [tabSize |-> 2, insertSpaces |-> TRUE]}
          /\ requests[r].range.start = 0

InitConcurrent ==
    /\ globalSettings = EmptySettings
    /\ documents \in {Undefined} \cup {Some(t) : t \in ConcurrentDocs}
    /\ requests = [r \in ConcurrentIds |-> IdleRequest]
    /\ FormatIdle

NextConcurrent ==
    \/ ~Responding /\ DidChangeConfiguration /\ ConcurrentInputs'
    \/ ~Responding /\ DidOpen /\ ConcurrentInputs'
    \/ ~Responding /\ DidChangeContent /\ ConcurrentInputs'
    \/ ~Responding /\ DidClose
    \/ \E r \in DOMAIN requests : OnDocumentFormatting(r) /\ ConcurrentInputs'
    \/ \E r \in DOMAIN requests : OnDocumentRangeFormatting(r) /\ ConcurrentInputs'
    \/ \E r \in DOMAIN requests : ResumeDocumentFormatting(r)
    \/ \E r \in DOMAIN requests : ResumeDocumentRangeFormatting(r)
    \/ \E r \in DOMAIN requests : Respond(r)

SpecConcurrent == InitConcurrent /\ [][NextConcurrent]_vars

---------------------------------------------------------------------------
(* Properties of formatXml, checked under SpecFormat *)

Done == pc = "done"

\* the line the loop consumed last, as split and as trimmed
LastRaw == lines[i - 1]
LastLine == Trim(lines[i - 1])

\* the text formatted holds after its last-but-one line break
LastEmitted ==
    LET body == SubSeq(formatted, 1, Len(formatted) - 1)
        nl == {k \in 1..Len(body) : body[k] = LF}
    IN  IF nl = {} THEN body ELSE SubSeq(body, MaxOf(nl) + 1, Len(body))

TwoSpaces == [tabSize |-> 2, insertSpaces |-> TRUE]

\* C1: formatting is idempotent: formatting the result of formatXml again,
\* with the same options and settings, returns that result, and
\* whole-document formatting of a document holding it returns no edit.
Idempotence ==
    Done =>
        /\ formatXml(result, options, settings) = result
        /\ formatXmlDocument(result, options, settings) = <<>>

\* C1 witness: a finished run that changed its input.
IdempotenceWitness ==
    /\ Done
    /\ result # content
    /\ Len(result) > 0
    /\ Includes(result, <<LF>>)

\* the offset at which line j of the split text starts
LineStart(s, j) ==
    LET nl == {k \in 1..Len(s) : s[k] = LF}
    IN  IF j = 1 THEN 0
        ELSE CHOOSE k \in nl : Cardinality({m \in nl : m <= k}) = j - 1

\* the tags that open an element (and do not close it) in the first n
\* characters of s, and the closing tags there
IsOpenTagAt(s, k) ==
    /\ s[k] = "<"
    /\ k < Len(s)
    /\ s[k + 1] \notin {"/", "!", "?"}
    /\ LET gt == {m \in (k + 1)..Len(s) : s[m] = ">"}
       IN  gt # {} /\ s[MinOf(gt) - 1] # "/"
IsCloseTagAt(s, k) == s[k] = "<" /\ k < Len(s) /\ s[k + 1] = "/"

\* the number of elements open after the first n characters of s
OpenElements(s, n) ==
    Cardinality({k \in 1..n : IsOpenTagAt(s, k)})
        - Cardinality({k \in 1..n : IsCloseTagAt(s, k)})

\* element-only text whose tags are balanced
WellFormed(s) ==
    /\ \A k \in 1..Len(s) : s[k] \notin {"!", "?", CR}
    /\ \A n \in 0..Len(s) : OpenElements(s, n) >= 0
    /\ OpenElements(s, Len(s)) = 0

\* C2 (as claimed): for well-formed input, a line that starts an element is
\* emitted indented by the indent unit times the number of elements open at
\* the start of that line.
IndentIsStructuralNesting ==
    ( /\ i > 1
      /\ WellFormed(content)
      /\ StartsWith(LastLine, LT)
      /\ ~StartsWith(LastLine, CLOSE_OPEN) )
    => LastEmitted =
          Repeat(indentChar(options),
                 OpenElements(content, LineStart(content, i - 1))) \o LastLine

\* the three lines the specification gives for scenario A
ScenarioAExpected == A_OPEN \o NL \o IND \o B_SELF \o NL \o A_CLOSE

\* C3 (as claimed): the one-line input <a><b/></a>, with a two-space unit,
\* is formatted to three lines.
ScenarioASplitsLines ==
    (Done /\ content = ScenarioA /\ options = TwoSpaces)
        => result = ScenarioAExpected

\* C3 (amended): with a two-space unit the one-line input <a><b/></a> is
\* returned as that one line; the three lines are the result when the input
\* holds the three tags on three lines.
ScenarioAKeepsLines ==
    /\ (Done /\ content = ScenarioA /\ options = TwoSpaces)
          => result = ScenarioA
    /\ (Done /\ content = ScenarioALines /\ options = TwoSpaces)
          => result = ScenarioAExpected

\* C3 witness: scenario A has been formatted.
ScenarioAWitness ==
    Done /\ content = ScenarioA /\ options = TwoSpaces /\ result = ScenarioA

\* where p occurs in s
Occurrences(s, p) ==
    {k \in 1..Len(s) : k + Len(p) - 1 <= Len(s) /\ SubSeq(s, k, k + Len(p) - 1) = p}

\* the first CDATA section of s, markers included, when s closes it
HasCdataSection(s) ==
    /\ Occurrences(s, CDATA_OPEN) # {}
    /\ \E q \in Occurrences(s, CDATA_CLOSE) :
          q >= MinOf(Occurrences(s, CDATA_OPEN)) + Len(CDATA_OPEN)
CdataSection(s) ==
    LET p == MinOf(Occurrences(s, CDATA_OPEN))
        q == MinOf({k \in Occurrences(s, CDATA_CLOSE) : k >= p + Len(CDATA_OPEN)})
    IN  SubSeq(s, p, q + Len(CDATA_CLOSE) - 1)

\* C4 (as claimed): the characters from a CDATA open marker to its matching
\* close marker are in the output unchanged, whatever white space and blank
\* lines they hold and whatever preserveNewLines is.
CdataIsVerbatim ==
    ( /\ Done
      /\ HasCdataSection(content)
      /\ ~Includes(content, COMMENT_OPEN)
      /\ ~Includes(content, PI_OPEN) )
    => Includes(result, CdataSection(content))

\* C6: depth is never negative while formatXml walks the lines; a closing
\* tag met at depth 0 leaves depth at 0, and the walk runs to the end of
\* the lines and returns.
DepthNonNegative ==
    /\ depth >= 0
    /\ (i > 1 /\ StartsWith(LastLine, CLOSE_OPEN) /\ prevDepth = 0) => depth = 0
    /\ pc = "loop" => i <= Len(lines) + 1
    /\ Done => i = Len(lines) + 1

\* C6 witness: an input with more closing-tag lines than opening-tag lines
\* has been formatted.
DepthNonNegativeWitness ==
    /\ Done
    /\ content = ExtraClosing
    /\ depth = 1
    /\ Len(result) > 0

\* n consecutive blank lines in ls
HasBlankRun(ls, n) ==
    \E k \in 1..Len(ls) :
        /\ k + n - 1 <= Len(ls)
        /\ \A m \in k..(k + n - 1) : Trim(ls[m]) = <<>>

\* C8 (as claimed): with preserveNewLines on and maxPreserveNewLines set to
\* n, no run of consecutive blank lines of the output is longer than n.
MaxPreserveNewLinesCaps ==
    LET xs == xmlSettings(settings)
    IN  (Done /\ KeepsBlankLines(xs) /\ IsSet(xs.maxPreserveNewLines))
            => ~HasBlankRun(Split(result), xs.maxPreserveNewLines[1] + 1)

\* line j lies inside a comment: a line before it starts with <!-- and no
\* line from that one up to line j - 1 holds -->
InComment(j) ==
    \E k \in 1..(j - 1) :
        /\ StartsWith(Trim(lines[k]), COMMENT_OPEN)
        /\ \A m \in k..(j - 1) : ~Includes(lines[m], COMMENT_CLOSE)

\* C9 (as claimed): a line inside a comment that spans several lines is
\* emitted unchanged and leaves depth alone, terminated or not.
CommentLinesAreVerbatim ==
    ( /\ i > 1
      /\ InComment(i - 1)
      /\ LastLine # <<>>
      /\ ~Includes(content, CDATA_OPEN) )
    => /\ depth = prevDepth
       /\ LastEmitted = LastRaw

\* the run's state before the line the loop consumed last
Before == Walk(lines, i - 2, indentChar(options), xmlSettings(settings))

\* C11: a line whose trimmed content contains "/>" leaves depth as it was,
\* inside a CDATA section or not.
SelfClosingKeepsDepth ==
    (i > 1 /\ Includes(LastLine, SELF_CLOSE)) => depth = prevDepth

\* C11 witness: a line that starts with an opening tag and holds a
\* self-closing tag before its end was consumed outside a CDATA section.
SelfClosingWitness ==
    /\ i > 1
    /\ Includes(LastLine, SELF_CLOSE)
    /\ StartsWith(LastLine, A_OPEN)
    /\ ~EndsWith(LastLine, SELF_CLOSE)
    /\ ~Before.preserveWhitespace
    /\ depth = prevDepth

\* the depth the line consumed last was rendered at: the depth after the
\* line for a line handled as a closing tag, the depth before it otherwise
RenderDepth ==
    IF /\ StartsWith(LastLine, CLOSE_OPEN)
       /\ ~Includes(LastLine, CDATA_OPEN)
       /\ ~Includes(LastLine, SELF_CLOSE)
    THEN depth
    ELSE prevDepth

\* C14 (as claimed): outside a CDATA section every non-blank line, of
\* whatever kind, is emitted as the indent unit repeated depth times, then
\* the trimmed line, then one line break, depth being the depth the line is
\* rendered at.
EveryLineIsIndented ==
    (i > 1 /\ LastLine # <<>> /\ ~Before.preserveWhitespace)
        => LastEmitted = Repeat(indentChar(options), RenderDepth) \o LastLine

\* what line m of the input appended to formatted
Emitted(m) ==
    LET a == Walk(lines, m - 1, indentChar(options), xmlSettings(settings)).formatted
        b == Walk(lines, m, indentChar(options), xmlSettings(settings)).formatted
    IN  SubSeq(b, Len(a) + 1, Len(b))

\* the number of white-space characters an emitted line starts with
Indentation(e) ==
    LET ink == {k \in 1..Len(e) : ~IsWhiteSpace(e[k])}
    IN  IF ink = {} THEN Len(e) ELSE MinOf(ink) - 1

\* the first j lines are blank or hold exactly one tag each
TagLines(j) ==
    \A k \in 1..j : Trim(lines[k]) \in {<<>>, A_OPEN, A_CLOSE, B_SELF}

\* opening-tag lines less closing-tag lines among lines a..b
NetOpen(a, b) ==
    Cardinality({k \in a..b : Trim(lines[k]) = A_OPEN})
        - Cardinality({k \in a..b : Trim(lines[k]) = A_CLOSE})

\* the opening-tag line that closing-tag line j closes, if there is one
Matches(j) == {m \in 1..(j - 1) : NetOpen(m, j) = 0}
HasMatch(j) == Trim(lines[j]) = A_CLOSE /\ Matches(j) # {}
MatchingOpen(j) == MaxOf(Matches(j))

\* the line consumed last was handled as a closing tag
ClosingTagConsumed ==
    /\ i > 1
    /\ StartsWith(LastLine, CLOSE_OPEN)
    /\ ~Includes(LastLine, CDATA_OPEN)
    /\ ~Includes(LastLine, SELF_CLOSE)
    /\ ~Before.preserveWhitespace

\* C15 (as claimed): a closing-tag line is indented one level less than its
\* matching opening-tag line.
ClosingTagOneLevelShallower ==
    (ClosingTagConsumed /\ TagLines(i - 1) /\ HasMatch(i - 1))
        => Indentation(Emitted(i - 1)) + Len(indentChar(options))
              = Indentation(Emitted(MatchingOpen(i - 1)))

\* C15 (amended): a closing-tag line is rendered after depth has been
\* decremented, never below 0, at the new depth; in input whose lines hold
\* one tag each, its indentation is that of its matching opening-tag line.
ClosingTagAlignsWithOpening ==
    ClosingTagConsumed =>
        /\ depth = Max(0, prevDepth - 1)
        /\ Emitted(i - 1) = Repeat(indentChar(options), depth) \o LastLine \o <<LF>>
        /\ (TagLines(i - 1) /\ HasMatch(i - 1)) =>
              Indentation(Emitted(i - 1)) = Indentation(Emitted(MatchingOpen(i - 1)))

\* C15 witness: the closing tag of an inner element has been rendered, one
\* level deep, under its opening tag.
ClosingTagWitness ==
    /\ ClosingTagConsumed
    /\ TagLines(i - 1)
    /\ HasMatch(i - 1)
    /\ prevDepth = 2
    /\ depth = 1
    /\ Indentation(Emitted(MatchingOpen(i - 1))) > 0

\* line k holds "<![CDATA[" and not "]]>", and no later line holds "]]>"
OpensUnterminated(k) ==
    /\ Includes(lines[k], CDATA_OPEN)
    /\ \A m \in k..Len(lines) : ~Includes(lines[m], CDATA_CLOSE)

\* the same, for a line that is not taken as a declaration or a comment
OpensUnterminatedCdata(k) ==
    /\ OpensUnterminated(k)
    /\ ~StartsWith(Trim(lines[k]), PI_OPEN)
    /\ ~StartsWith(Trim(lines[k]), COMMENT_OPEN)

DepthAfter(k) == Walk(lines, k, indentChar(options), xmlSettings(settings)).depth

\* C16 (as claimed): once a line that holds "<![CDATA[" and not "]]>" has
\* been consumed and no later line holds "]]>", preserveWhitespace is true
\* and depth is what it was after that line, up to the end of the input.
UnterminatedCdataAnyLine ==
    \A k \in 1..(i - 1) :
        OpensUnterminated(k) => preserveWhitespace /\ depth = DepthAfter(k)

\* an unterminated CDATA section has been opened
InUnterminatedCdata == \E k \in 1..(i - 1) : OpensUnterminatedCdata(k)

\* C16 (amended): once a line that holds "<![CDATA[" and not "]]>", and
\* does not start with "<?" or "<!--", has been consumed and no later line
\* holds "]]>", preserveWhitespace stays true and depth stays what it was
\* after that line, up to the end of the input; a line consumed while
\* preserveWhitespace is true leaves depth alone; and the call returns.
UnterminatedCdata ==
    /\ [](\A k \in 1..(i - 1) :
            OpensUnterminatedCdata(k) => preserveWhitespace /\ depth = DepthAfter(k))
    /\ []((i > 1 /\ Before.preserveWhitespace) => depth = prevDepth)
    /\ (InUnterminatedCdata ~> (Done /\ result = TrimEnd(formatted)))

\* C16 witness: the call returned after an unterminated CDATA section inside
\* an open element, with an opening and two closing tags after it.
UnterminatedCdataWitness ==
    /\ Done
    /\ content = CdataOpenEnded
    /\ InUnterminatedCdata
    /\ preserveWhitespace
    /\ depth = 1

\* the lines of the input that are not blank, and the last of them
NonBlank == {k \in 1..Len(lines) : Trim(lines[k]) # <<>>}
LastNonBlank == IF NonBlank = {} THEN 0 ELSE MaxOf(NonBlank)

IsNonBlank(l) == Trim(l) # <<>>
TrimmedLines(ls) ==
    LET kept == SelectSeq(ls, IsNonBlank)
    IN  [k \in 1..Len(kept) |-> Trim(kept[k])]

\* C18: the trimmed non-blank lines of the output are the trimmed non-blank
\* lines of the input, in the same order, for every input, options and
\* settings: no such line is added, dropped, split, joined or moved.
ContentPreserved ==
    Done => TrimmedLines(Split(result)) = TrimmedLines(lines)

\* C18 witness: an input of five non-blank lines with a carriage return,
\* leading white space and a closing line break was changed by the call.
ContentPreservedWitness ==
    /\ Done
    /\ content = Nested
    /\ result # content
    /\ Len(TrimmedLines(Split(result))) = 5

\* every closing-tag line closes an opening-tag line and none stays open
Balanced ==
    /\ NetOpen(1, Len(lines)) = 0
    /\ \A j \in 1..Len(lines) : NetOpen(1, j) >= 0

\* the opening-tag lines not yet closed when line j is rendered: a
\* closing-tag line has closed its own element by then
OpenAt(j) ==
    IF Trim(lines[j]) = A_CLOSE THEN NetOpen(1, j) ELSE NetOpen(1, j - 1)

\* C19: in input whose non-blank lines hold exactly one opening, closing or
\* self-closing tag each, with the tags balanced, every line is rendered at
\* the indent unit times the number of opening-tag lines not yet closed (a
\* closing-tag line counted as having closed its element), every
\* closing-tag line has the indentation of its matching opening-tag line,
\* and depth is 0 after the last line.
BalancedNesting ==
    (Done /\ TagLines(Len(lines)) /\ Balanced) =>
        /\ \A j \in NonBlank :
              Emitted(j) = Repeat(indentChar(options), OpenAt(j))
                              \o Trim(lines[j]) \o <<LF>>
        /\ \A j \in NonBlank :
              Trim(lines[j]) = A_CLOSE =>
                  /\ HasMatch(j)
                  /\ Indentation(Emitted(j)) = Indentation(Emitted(MatchingOpen(j)))
        /\ depth = 0

\* C19 witness: two nested elements, the inner one holding a self-closing
\* tag rendered two levels deep, have been formatted.
BalancedNestingWitness ==
    /\ Done
    /\ content = NestedTags
    /\ TagLines(Len(lines))
    /\ Balanced
    /\ Indentation(Emitted(3)) = 2 * Len(indentChar(options))
    /\ depth = 0

\* s ends with a white-space character
EndsWithWhiteSpace(s) == s # <<>> /\ IsWhiteSpace(s[Len(s)])

\* C20: the result of formatXml never ends with white space or a line
\* break, so whole-document formatting of a text that ends with one returns
\* one edit, which holds the result, also when every line of the text is
\* indented as the formatter indents it.
NoTrailingWhiteSpace ==
    Done =>
        /\ ~EndsWithWhiteSpace(result)
        /\ EndsWithWhiteSpace(content) =>
              /\ Len(formatXmlDocument(content, options, settings)) = 1
              /\ formatXmlDocument(content, options, settings)[1].newText = result

\* C20 witness: a text whose lines are indented as the formatter indents
\* them, closed by a line break, came back without the line break.
NoTrailingWhiteSpaceWitness ==
    /\ Done
    /\ options = TwoSpaces
    /\ content = ScenarioD \o NL
    /\ result = ScenarioD

---------------------------------------------------------------------------
(* Properties of the handlers and the edit builders, checked under Spec *)

\* the resolved settings value holds xml.format.enable = false
EnableIsFalse(s) ==
    \E x \in {s.xml[k] : k \in 1..Len(s.xml)} :
        \E f \in {x.format[k] : k \in 1..Len(x.format)} :
            f.enable = <<FALSE>>

\* the text a finished request asked to format: the document, or the part
\* of it inside the request's range
RequestedText(q) ==
    IF q.kind = "document" THEN documents[1]
    ELSE SubSeq(documents[1], q.range.start + 1, q.range.end)

\* the span a finished request asked to format
RequestedSpan(q) ==
    IF q.kind = "document" THEN [start |-> 0, end |-> Len(documents[1])]
    ELSE q.range

\* C5: when the settings a handler resolved hold xml.format.enable = false,
\* the document-formatting and the range-formatting handler return no edit
\* and do not run the formatter.
SettingsGate ==
    \A r \in RequestIds :
        (requests[r].pc = "done" /\ EnableIsFalse(requests[r].settings))
            => requests[r].result = <<>> /\ ~requests[r].ran

\* C5 witness: a range request was held back whose text the formatter would
\* have changed.
SettingsGateWitness ==
    \E r \in RequestIds :
        LET q == requests[r]
        IN  /\ q.pc = "done"
            /\ q.kind = "range"
            /\ EnableIsFalse(q.settings)
            /\ IsSet(documents)
            /\ formatXml(RequestedText(q), q.options, q.settings) # RequestedText(q)

\* C7: a call of an edit builder returns no edit exactly when the rendered,
\* right-trimmed text equals the requested text, and otherwise one edit over
\* the whole requested span that holds the rendered text; never two edits.
EditBuilderContract ==
    \A r \in RequestIds :
        LET q == requests[r]
            f == formatXml(RequestedText(q), q.options, q.settings)
        IN  (q.pc = "done" /\ q.ran) =>
                /\ Len(q.result) <= 1
                /\ q.result = <<>> <=> f = RequestedText(q)
                /\ q.result # <<>> =>
                      q.result = <<[range |-> RequestedSpan(q), newText |-> f]>>

\* C7 witness: a whole-document request returned one edit.
EditBuilderWitness ==
    \E r \in RequestIds :
        /\ requests[r].pc = "done"
        /\ requests[r].ran
        /\ requests[r].kind = "document"
        /\ Len(requests[r].result) = 1
        /\ requests[r].result[1].range.end > 0

\* C10: the edit of a range request has the caller's range and holds the
\* range's text formatted as a document of its own; every document that
\* holds the same text inside the range gets the same edits.
RangeIsContextIndependent ==
    \A r \in RequestIds :
        LET q == requests[r]
            sub == SubSeq(documents[1], q.range.start + 1, q.range.end)
            alone == formatXml(sub, q.options, q.settings)
        IN  (q.pc = "done" /\ q.ran /\ q.kind = "range") =>
                /\ \A e \in {q.result[k] : k \in 1..Len(q.result)} :
                      e.range = q.range /\ e.newText = alone
                /\ q.result = <<>> <=> alone = sub
                /\ \A d \in Docs :
                      (Len(d) >= q.range.end
                         /\ SubSeq(d, q.range.start + 1, q.range.end) = sub)
                      => formatXmlDocumentRange(d, q.range, q.options, q.settings)
                            = q.result

\* C10 witness: a range that holds the lines inside an element got an edit
\* that leaves the line of the inner element at depth 0.
RangeWitness ==
    \E r \in RequestIds :
        LET q == requests[r]
        IN  /\ q.pc = "done"
            /\ q.ran
            /\ q.kind = "range"
            /\ documents[1] = ScenarioD
            /\ q.range = [start |-> Len(A_OPEN), end |-> Len(ScenarioD)]
            /\ q.options = TwoSpaces
            /\ q.result = <<[range |-> q.range,
                             newText |-> NL \o B_SELF \o NL \o A_CLOSE]>>

\* the settings a handler resolved came from a configuration change whose
\* settings carry xml.format.enable = false: change.settings.xml, the value
\* onDidChangeConfiguration stores, holds format.enable = false
CarriedEnableFalse(s) ==
    /\ IsSet(s.format)
    /\ s.format[1].enable = Some(FALSE)

\* C13: after a configuration change whose settings carry
\* xml.format.enable = false, every document-formatting and range-formatting
\* request answered before the next configuration change returns no edit.
EnableSwitchWorks ==
    \A r \in DOMAIN requests :
        (requests[r].pc = "done" /\ CarriedEnableFalse(requests[r].settings))
            => requests[r].result = <<>>

---------------------------------------------------------------------------
(* Properties of concurrent requests, checked under SpecConcurrent *)

\* formatXml run alone: the loop over the lines of text from depth 0 and
\* preserveWhitespace false
RECURSIVE AloneWalk(_, _, _, _)
AloneWalk(ls, n, unit, xs) ==
    IF n = 0
    THEN [depth |-> 0, preserveWhitespace |-> FALSE, formatted |-> <<>>]
    ELSE StepLine(AloneWalk(ls, n - 1, unit, xs), ls[n], unit, xs)

RunAlone(text, o, s) ==
    LET ls == Split(text)
    IN  TrimEnd(AloneWalk(ls, Len(ls), indentChar(o), xmlSettings(s)).formatted)

\* the edits of a request q that ran alone on the text it was given
AloneEdits(q) ==
    LET f == RunAlone(q.text, q.options, q.settings)
        span == IF q.kind = "document"
                THEN [start |-> 0, end |-> Len(q.text)]
                ELSE q.range
    IN  IF f = q.text THEN <<>> ELSE << [range |-> span, newText |-> f] >>

=============================================================================
